---- MODULE Spec2Model ----
(***************************************************************************)
(* PDFBookmarkGenerator: the TOC-text parser, the outline store (bookmarks *)
(* and original_bookmarks), the offset engine, the undo history, the       *)
(* import of an exported store and the outline writer, as implemented in   *)
(* src/core/bookmark_generator.py, together with the /apply_offset request *)
(* handler of src/pdf_content_bookmark_generator_beta.py.                  *)
(*                                                                         *)
(* A string is a sequence of characters; a character is a one-character    *)
(* TLA+ string for ASCII and the string "U+XXXX" of its code point         *)
(* otherwise.  Python's None is the empty tuple and a present optional     *)
(* value x is the one-element tuple <<x>>.  List indices are 0-based at    *)
(* the interface of every operation, as in the source.                     *)
(***************************************************************************)
EXTENDS Integers, Sequences, FiniteSets, TLC

VARIABLES
    bookmarks,           \* self.bookmarks ("current"): sequence of entries
    original_bookmarks,  \* self.original_bookmarks ("original")
    offset,              \* self.offset
    content_start_page,  \* self.content_start_page (None or <<int>>)
    history,             \* self.history, the deque of undo snapshots
    draft,               \* the draft file: None or <<draft_data>>
    ret,                 \* outcome of the last call: operation, input, value
    log                  \* names of the calls made so far, oldest first

vars == <<bookmarks, original_bookmarks, offset, content_start_page,
          history, draft, ret, log>>

----------------------------------------------------------------------------
(* Optional values and small arithmetic                                    *)

None == <<>>
Some(x) == <<x>>
IsNone(o) == o = <<>>
Val(o) == o[1]

Min2(a, b) == IF a <= b THEN a ELSE b
Max2(a, b) == IF a >= b THEN a ELSE b

----------------------------------------------------------------------------
(* Characters                                                              *)

Whitespace == {" ", "\t", "\n", "\r"}
Digits == {"0", "1", "2", "3", "4", "5", "6", "7", "8", "9"}

DigitVal(c) ==
    CASE c = "0" -> 0 [] c = "1" -> 1 [] c = "2" -> 2 [] c = "3" -> 3
      [] c = "4" -> 4 [] c = "5" -> 5 [] c = "6" -> 6 [] c = "7" -> 7
      [] c = "8" -> 8 [] c = "9" -> 9

(* '#', '*', '-', bullet, black star, white star, two right-pointing       *)
(* triangles, rightwards arrow, rightwards double arrow                    *)
prefixes == {"#", "*", "-", "U+2022", "U+2605", "U+2606", "U+25B6",
             "U+25BA", "U+2192", "U+21D2"}

chinese_numerals == {"U+4E00", "U+4E8C", "U+4E09", "U+56DB", "U+4E94",
                     "U+516D", "U+4E03", "U+516B", "U+4E5D", "U+5341",
                     "U+767E", "U+5343", "U+4E07"}
roman_numerals == {"I", "V", "X", "L", "C", "D", "M"}

(* qianyan, xuyan, fulu, cankaowenxian, suoyin                             *)
front_matter_keywords ==
    { <<"U+524D", "U+8A00">>, <<"U+5E8F", "U+8A00">>, <<"U+9644", "U+5F55">>,
      <<"U+53C2", "U+8003", "U+6587", "U+732E">>, <<"U+7D22", "U+5F15">> }
(* zhangjie, zhang, pian                                                   *)
chapter_keywords == { <<"U+7AE0", "U+8282">>, <<"U+7AE0">>, <<"U+7BC7">> }
(* jie, xiang, tiao                                                        *)
section_keywords == { <<"U+8282">>, <<"U+9879">>, <<"U+6761">> }
(* xiaojie, zixiang, zitiao                                                *)
subsection_keywords ==
    { <<"U+5C0F", "U+8282">>, <<"U+5B50", "U+9879">>, <<"U+5B50", "U+6761">> }

----------------------------------------------------------------------------
(* Python string primitives used by parse_toc_text                         *)

(* number of leading characters of s that belong to the class cls         *)
LeadingRun(s, cls) ==
    LET stop == {i \in 1..Len(s) : s[i] \notin cls}
    IN  IF stop = {} THEN Len(s)
        ELSE (CHOOSE i \in stop : \A j \in stop : i <= j) - 1

(* number of trailing characters of s that belong to the class cls        *)
TrailingRun(s, cls) ==
    LET stop == {i \in 1..Len(s) : s[i] \notin cls}
    IN  IF stop = {} THEN Len(s)
        ELSE Len(s) - (CHOOSE i \in stop : \A j \in stop : i >= j)

(* number of leading characters of s equal to c                            *)
LeadingCount(s, c) == LeadingRun(s, {c})

(* str.lstrip(), str.rstrip(), str.strip()                                 *)
LStrip(s) == SubSeq(s, LeadingRun(s, Whitespace) + 1, Len(s))
RStrip(s) == SubSeq(s, 1, Len(s) - TrailingRun(s, Whitespace))
Strip(s) == RStrip(LStrip(s))

(* str.split(sep) for a one-character separator                            *)
RECURSIVE Split(_, _)
Split(s, sep) ==
    LET at == {i \in 1..Len(s) : s[i] = sep}
    IN  IF at = {} THEN <<s>>
        ELSE LET i == CHOOSE k \in at : \A j \in at : k <= j
             IN  <<SubSeq(s, 1, i - 1)>> \o Split(SubSeq(s, i + 1, Len(s)), sep)

(* int(s) for a non-empty run of decimal digits                            *)
RECURSIVE ToInt(_)
ToInt(s) ==
    IF s = <<>> THEN 0
    ELSE 10 * ToInt(SubSeq(s, 1, Len(s) - 1)) + DigitVal(s[Len(s)])

(* `kw in s`: kw occurs in s as a contiguous substring                     *)
Contains(s, kw) ==
    \E i \in 1..(Len(s) - Len(kw) + 1) : SubSeq(s, i, i + Len(kw) - 1) = kw

AnyKeyword(s, kws) == \E kw \in kws : Contains(s, kw)

----------------------------------------------------------------------------
(* The regular expressions of parse_toc_text                               *)

(* re.match(r'^(#{1,4})\s+(.+)', line) on a stripped line: 1..4 hashes,    *)
(* then at least one whitespace character, then a non-empty remainder.     *)
(* The result is None or <<[hashes, rest]>>.                               *)
markdown_match(line) ==
    LET h == LeadingCount(line, "#")
        w == LeadingRun(SubSeq(line, h + 1, Len(line)), Whitespace)
    IN  IF h >= 1 /\ h <= 4 /\ w >= 1 /\ Len(line) > h + w
        THEN Some([hashes |-> h, rest |-> SubSeq(line, h + w + 1, Len(line))])
        ELSE None

(* page_match = re.search of a digit run followed by optional whitespace   *)
(* at the end of the line: the maximal run of digits that ends where the   *)
(* trailing whitespace of the line begins.  The result is None             *)
(* or <<[start, digits]>>, start being the 0-based index of the match.     *)
page_match(line) ==
    LET body == RStrip(line)
        d == TrailingRun(body, Digits)
    IN  IF d = 0 THEN None
        ELSE Some([start |-> Len(body) - d,
                   digits |-> SubSeq(body, Len(body) - d + 1, Len(body))])

(* re.sub(r'\.{3,}|\s{2,}$', '', title): every run of three or more dots   *)
(* is removed, and so is a run of two or more whitespace characters that   *)
(* reaches the end of the title.                                           *)
RECURSIVE remove_leaders(_)
remove_leaders(s) ==
    IF s = <<>> THEN <<>>
    ELSE LET d == LeadingCount(s, ".")
             w == LeadingRun(s, Whitespace)
         IN  IF d >= 3 THEN remove_leaders(SubSeq(s, d + 1, Len(s)))
             ELSE IF w >= 2 /\ w = Len(s) THEN <<>>
             ELSE <<Head(s)>> \o remove_leaders(Tail(s))

(* length of the match of the chapter-numbering pattern at the start of    *)
(* the title, 0 for none: digit runs separated by single dots, ending      *)
(* with a digit run                                                        *)
RECURSIVE chapter_match_len(_)
chapter_match_len(s) ==
    LET d == LeadingRun(s, Digits)
    IN  IF d = 0 THEN 0
        ELSE IF Len(s) > d /\ s[d + 1] = "."
                  /\ chapter_match_len(SubSeq(s, d + 2, Len(s))) > 0
             THEN d + 1 + chapter_match_len(SubSeq(s, d + 2, Len(s)))
             ELSE d

(* chapter_match.group(0), the empty string when there is no match         *)
chapter_match(title) == SubSeq(title, 1, chapter_match_len(title))

(* str.count('.')                                                          *)
CountDots(s) == Cardinality({i \in 1..Len(s) : s[i] = "."})

(* a run of Chinese numerals followed by an ideographic comma or a colon   *)
chinese_numeral_match(title) ==
    LET n == LeadingRun(title, chinese_numerals)
    IN  n >= 1 /\ Len(title) > n /\ title[n + 1] \in {"U+3001", ":"}

(* a run of IVXLCDM followed by a dot, an ideographic comma or a colon     *)
roman_numeral_match(title) ==
    LET n == LeadingRun(title, roman_numerals)
    IN  n >= 1 /\ Len(title) > n /\ title[n + 1] \in {".", "U+3001", ":"}

----------------------------------------------------------------------------
(* parse_toc_text, step by step                                            *)

(* the line loop without `if not line: continue`: blank lines are kept    *)
StripEach_keeping_blanks(ls) == [i \in 1..Len(ls) |-> Strip(ls[i])]

(* toc_text.strip().split('\n'), each line stripped, blank lines skipped   *)
RECURSIVE StripEach(_)
StripEach(ls) ==
    IF ls = <<>> THEN <<>>
    ELSE LET l == Strip(Head(ls))
         IN  (IF l = <<>> THEN <<>> ELSE <<l>>) \o StripEach(Tail(ls))

toc_lines(toc_text) == StripEach(Split(Strip(toc_text), "\n"))

(* the pre-pass: the set of hash-counts of the Markdown headings           *)
markdown_levels(lines) ==
    { Val(markdown_match(lines[i])).hashes :
        i \in {k \in 1..Len(lines) : ~IsNone(markdown_match(lines[k]))} }

(* level_mapping: hash-count -> rank among the observed hash-counts        *)
level_mapping(levels) ==
    [h \in levels |-> Cardinality({k \in levels : k < h})]

(* level_mapping.get(original_level, original_level - 1)                   *)
mapped_level(mapping, original_level) ==
    IF original_level \in DOMAIN mapping THEN mapping[original_level]
    ELSE original_level - 1

(* the while loop that removes leading marker glyphs                       *)
RECURSIVE strip_prefixes(_)
strip_prefixes(line) ==
    IF line # <<>> /\ line[1] \in prefixes
    THEN strip_prefixes(Strip(Tail(line)))
    ELSE line

(* page_num: int of the trailing digit run, or None                        *)
page_of(line) ==
    LET pm == page_match(line)
    IN  IF IsNone(pm) THEN None ELSE Some(ToInt(Val(pm).digits))

(* title before the Markdown override: the text before the page number,    *)
(* stripped, with the dot leaders removed, stripped again                  *)
title_of(line) ==
    LET pm == page_match(line)
        t == IF IsNone(pm) THEN line
             ELSE Strip(SubSeq(line, 1, Val(pm).start))
    IN  Strip(remove_leaders(t))

(* method 1: indentation of the original line after one marker glyph       *)
indent_level(original_line) ==
    LET original_title_part ==
            IF original_line # <<>> /\ original_line[1] \in prefixes
            THEN Strip(Tail(original_line))
            ELSE original_line
        leading_spaces ==
            Len(original_title_part) - Len(LStrip(original_title_part))
    IN  IF leading_spaces > 0 THEN Min2(3, leading_spaces \div 2) ELSE 0

(* dot_level with min in place of max                                      *)
dot_level_min(level, title) ==
    LET m == chapter_match(title)
    IN  IF m # <<>> THEN Min2(level, CountDots(m)) ELSE level

(* method 2: dotted chapter numbering raises the level to its dot count    *)
dot_level(level, title) ==
    LET m == chapter_match(title)
    IN  IF m # <<>> THEN Max2(level, CountDots(m)) ELSE level

(* methods 4 to 6: numeral prefixes and keywords                           *)
keyword_level(level, title) ==
    LET l4 == IF chinese_numeral_match(title) THEN Max2(level, 0) ELSE level
        l5 == IF roman_numeral_match(title) THEN Max2(l4, 0) ELSE l4
        l6 == IF AnyKeyword(title, front_matter_keywords)
              THEN Max2(l5, 0) ELSE l5
        l7 == IF AnyKeyword(title, chapter_keywords) THEN Max2(l6, 0) ELSE l6
        l8 == IF AnyKeyword(title, section_keywords)
              THEN Min2(l7 + 1, 3) ELSE l7
    IN  IF AnyKeyword(title, subsection_keywords) THEN Min2(l8 + 2, 3) ELSE l8

(* the body of the second loop for one stripped, non-blank line            *)
parse_line(original_line, mapping) ==
    LET line == strip_prefixes(original_line)
        level2 == dot_level(indent_level(original_line), title_of(line))
        mm == markdown_match(original_line)
        level3 == IF IsNone(mm) THEN level2
                  ELSE mapped_level(mapping, Val(mm).hashes)
        title == IF IsNone(mm) THEN title_of(line) ELSE Val(mm).rest
    IN  [title |-> title, page |-> page_of(line),
         level |-> keyword_level(level3, title)]

(* the list returned by parse_toc_text                                     *)
parse_result(toc_text) ==
    LET lines == toc_lines(toc_text)
        mapping == level_mapping(markdown_levels(lines))
    IN  [i \in 1..Len(lines) |-> parse_line(lines[i], mapping)]

----------------------------------------------------------------------------
(* Inputs and bounds                                                       *)

MaxOps == 3        \* number of calls in one run
MaxDots == 5       \* dots in a generated chapter numbering
MaxTextLen == 3    \* length of the exhaustively generated pasted texts
MaxPage == 6       \* largest content start page supplied or stored

MaxMoveOps == 4    \* number of calls in one run of SpecMove
MaxOutlineOps == 4 \* number of calls in one run of SpecOutline
MaxUndoOps == 11   \* number of calls in one run of SpecUndo
MaxNestingOps == 5 \* number of calls in one run of SpecNesting
MaxDraftOps == 4   \* number of calls in one run of SpecDraft

HistoryMaxLen == 5 \* deque(maxlen=5)

Entry(title, page, level) == [title |-> title, page |-> page, level |-> level]

----------------------------------------------------------------------------
(* Undo history and draft                                                  *)

(* a snapshot that keeps the live list objects instead of copies: the     *)
(* in-place edits that follow in the call show in the snapshot             *)
copy_list_shared(list, live) == live

(* [bookmark.copy() for bookmark in list], taken at the start of a call    *)
(* that leaves the list object as live: the copy is a new list of new      *)
(* dicts, which the in-place edits of the call do not reach                *)
copy_list(list, live) == list

(* save_state on a list instead of deque(maxlen=5): nothing is dropped    *)
save_state_unbounded(h, b, ob, off) ==
    Append(h, [bookmarks |-> b, original_bookmarks |-> ob, offset |-> off])

(* save_state: append a copy of the store; the deque drops its oldest      *)
(* element when it is full                                                 *)
save_state(h, b, ob, off) ==
    LET state == [bookmarks |-> b, original_bookmarks |-> ob, offset |-> off]
        h2 == Append(h, state)
    IN  IF Len(h2) > HistoryMaxLen THEN Tail(h2) ELSE h2

(* save_draft writing the current list under both list keys                *)
save_draft_current_only(b, ob, off, csp) ==
    Some([bookmarks |-> b, original_bookmarks |-> b, offset |-> off,
          content_start_page |-> csp])

(* save_draft: the whole store, overwriting the draft file                 *)
save_draft(b, ob, off, csp) ==
    Some([bookmarks |-> b, original_bookmarks |-> ob, offset |-> off,
          content_start_page |-> csp])

(* load_draft on the store __init__ has just set up: when the draft file   *)
(* exists every field is read from it with draft_data.get, and otherwise   *)
(* the store keeps the values of __init__.  The file holds strings,        *)
(* integers and null, which json.load returns as json.dump received them.  *)
load_draft(d) ==
    LET fresh == [bookmarks |-> <<>>, original_bookmarks |-> <<>>,
                  offset |-> 0, content_start_page |-> Some(1)]
        get(key) == IF key \in DOMAIN Val(d) THEN Val(d)[key] ELSE fresh[key]
    IN  IF IsNone(d) THEN fresh
        ELSE [bookmarks |-> get("bookmarks"),
              original_bookmarks |-> get("original_bookmarks"),
              offset |-> get("offset"),
              content_start_page |-> get("content_start_page")]

Called(op) == log' = Append(log, op)

----------------------------------------------------------------------------
(* Offset engine                                                           *)

(* calculate_offset without the > 0 test on the supplied page              *)
calculate_offset_unguarded(arg, stored) ==
    IF ~IsNone(arg) THEN Val(arg) - 1
    ELSE IF ~IsNone(stored) /\ Val(stored) > 0 THEN Val(stored) - 1
    ELSE 0

(* calculate_offset(content_start_page=None) with self.content_start_page  *)
calculate_offset(arg, stored) ==
    IF ~IsNone(arg) /\ Val(arg) > 0 THEN Val(arg) - 1
    ELSE IF ~IsNone(stored) /\ Val(stored) > 0 THEN Val(stored) - 1
    ELSE 0

(* apply_offset testing the page for truth instead of `is not None`:       *)
(* page 0 is left alone                                                    *)
apply_offset_truthy(bms, off, self_offset) ==
    LET o == IF IsNone(off) THEN self_offset ELSE Val(off)
    IN  [result |-> [i \in 1..Len(bms) |->
                        IF IsNone(bms[i].page) \/ bms[i].page = Some(0)
                        THEN bms[i]
                        ELSE [bms[i] EXCEPT !.page = Some(Val(@) + o)]],
         bookmarks |-> bms]

(* apply_offset without bookmark.copy(): the entries of the argument list  *)
(* are changed in place                                                    *)
apply_offset_in_place(bms, off, self_offset) ==
    LET o == IF IsNone(off) THEN self_offset ELSE Val(off)
        shifted == [i \in 1..Len(bms) |->
                       IF IsNone(bms[i].page) THEN bms[i]
                       ELSE [bms[i] EXCEPT !.page = Some(Val(@) + o)]]
    IN  [result |-> shifted, bookmarks |-> shifted]

(* apply_offset(bookmarks, offset=None).  The value is the returned list   *)
(* (result) together with the argument list as the call leaves it          *)
(* (bookmarks): every entry is copied before its page is changed.          *)
apply_offset(bms, off, self_offset) ==
    LET o == IF IsNone(off) THEN self_offset ELSE Val(off)
    IN  [result |-> [i \in 1..Len(bms) |->
                        IF IsNone(bms[i].page) THEN bms[i]
                        ELSE [bms[i] EXCEPT !.page = Some(Val(@) + o)]],
         bookmarks |-> bms]

----------------------------------------------------------------------------
(* Outline store: the list updates of the edit operations.  A frame is     *)
(* the pair of lists in the middle of a call, with raised = TRUE once a    *)
(* statement has raised IndexError (original_bookmarks shorter than        *)
(* bookmarks); the statements after it are not executed.                   *)

Frame(b, ob) == [b |-> b, ob |-> ob, raised |-> FALSE]

InRange(index, list) == 0 <= index /\ index < Len(list)

Clamp(level) == Max2(0, Min2(3, level))

(* del list[index]                                                         *)
DelAt(list, index) ==
    SubSeq(list, 1, index) \o SubSeq(list, index + 2, Len(list))

(* list[i], list[j] = list[j], list[i]                                     *)
SwapAt(list, i, j) ==
    [list EXCEPT ![i + 1] = list[j + 1], ![j + 1] = list[i + 1]]

(* self.bookmarks[index][field] = v; self.original_bookmarks[index][field] = v *)
set_field(f, index, field, v) ==
    IF f.raised THEN f
    ELSE LET g == [f EXCEPT !.b[index + 1][field] = v]
         IN  IF ~InRange(index, f.ob) THEN [g EXCEPT !.raised = TRUE]
             ELSE [g EXCEPT !.ob[index + 1][field] = v]

(* add_bookmark inserting the new entry at the front of both lists         *)
add_bookmark_lists_at_front(f, title, page, level) ==
    [f EXCEPT !.b = <<Entry(title, page, level)>> \o @,
              !.ob = <<Entry(title, page, level)>> \o @]

(* add_bookmark that forgets the append to original_bookmarks              *)
add_bookmark_lists_current_only(f, title, page, level) ==
    [f EXCEPT !.b = Append(@, Entry(title, page, level))]

add_bookmark_lists(f, title, page, level) ==
    [f EXCEPT !.b = Append(@, Entry(title, page, level)),
              !.ob = Append(@, Entry(title, page, level))]

remove_bookmark_lists(f, index) ==
    LET g == [f EXCEPT !.b = DelAt(@, index)]
    IN  IF ~InRange(index, f.ob) THEN [g EXCEPT !.raised = TRUE]
        ELSE [g EXCEPT !.ob = DelAt(@, index)]

update_bookmark_lists(f, index, title, page, level) ==
    LET f1 == IF IsNone(title) THEN f
              ELSE set_field(f, index, "title", Val(title))
        f2 == IF IsNone(page) THEN f1 ELSE set_field(f1, index, "page", page)
    IN  IF IsNone(level) THEN f2 ELSE set_field(f2, index, "level", Val(level))

move_bookmark_lists(f, index, direction) ==
    LET other == IF direction = "up" THEN index - 1 ELSE index + 1
        moves == \/ direction = "up" /\ index > 0
                 \/ direction = "down" /\ index < Len(f.b) - 1
        g == [f EXCEPT !.b = SwapAt(@, index, other)]
    IN  IF ~moves THEN f
        ELSE IF ~(InRange(index, f.ob) /\ InRange(other, f.ob))
             THEN [g EXCEPT !.raised = TRUE]
             ELSE [g EXCEPT !.ob = SwapAt(@, index, other)]

(* the body of the loop of batch_update_bookmarks for one index            *)
batch_update_one(f, index, title_prefix, page_offset, level_offset) ==
    LET k == index + 1
        has_ob == InRange(index, f.ob)
        raise(x) == [x EXCEPT !.raised = TRUE]
        f1 == IF IsNone(title_prefix) THEN f
              ELSE LET g == [f EXCEPT !.b[k].title = Val(title_prefix) \o @]
                   IN  IF ~has_ob THEN raise(g)
                       ELSE [g EXCEPT !.ob[k].title = Val(title_prefix) \o @]
        f2 == IF f1.raised \/ IsNone(page_offset) THEN f1
              ELSE LET g == IF IsNone(f1.b[k].page) THEN f1
                            ELSE [f1 EXCEPT !.b[k].page =
                                      Some(Val(@) + Val(page_offset))]
                   IN  IF ~has_ob THEN raise(g)
                       ELSE IF IsNone(g.ob[k].page) THEN g
                       ELSE [g EXCEPT !.ob[k].page =
                                 Some(Val(@) + Val(page_offset))]
        f3 == IF f2.raised \/ IsNone(level_offset) THEN f2
              ELSE LET new_level == f2.b[k].level + Val(level_offset)
                       g == [f2 EXCEPT !.b[k].level = Clamp(new_level)]
                   IN  IF ~has_ob THEN raise(g)
                       ELSE [g EXCEPT !.ob[k].level = Clamp(new_level)]
    IN  IF f.raised \/ ~InRange(index, f.b) THEN f ELSE f3

RECURSIVE batch_update_lists(_, _, _, _, _)
batch_update_lists(f, indices, title_prefix, page_offset, level_offset) ==
    IF indices = <<>> THEN f
    ELSE batch_update_lists(
             batch_update_one(f, Head(indices), title_prefix, page_offset,
                              level_offset),
             Tail(indices), title_prefix, page_offset, level_offset)

----------------------------------------------------------------------------
(* Outline writer: the bookmark loop of generate_pdf_with_bookmarks.       *)
(* bookmark_map is a sequence with one slot per bookmark seen so far: None *)
(* for a bookmark that was not added to the outline, otherwise the outline *)
(* item, [title, page_index, parent], parent being None for a top-level    *)
(* item and the 0-based index of the parent bookmark otherwise.            *)

IsAdded(bookmark_map, key) == ~IsNone(bookmark_map[key + 1])

(* the parent search accepting a key whose level is not smaller but equal  *)
parent_key_not_strict(bms, bookmark_map, i) ==
    LET keys == {key \in 0..(i - 1) :
                    /\ IsAdded(bookmark_map, key)
                    /\ bms[key + 1].level <= bms[i + 1].level}
    IN  IF keys = {} THEN None
        ELSE Some(CHOOSE k \in keys : \A j \in keys : k >= j)

(* the parent search taking the first suitable key instead of the last     *)
parent_key_first(bms, bookmark_map, i) ==
    LET keys == {key \in 0..(i - 1) :
                    /\ IsAdded(bookmark_map, key)
                    /\ bms[key + 1].level < bms[i + 1].level}
    IN  IF keys = {} THEN None
        ELSE Some(CHOOSE k \in keys : \A j \in keys : k <= j)

(* the search through reversed(list(bookmark_map.keys())): the keys were   *)
(* inserted in increasing order, so the first hit is the largest key with  *)
(* key < i and a smaller level                                             *)
parent_key(bms, bookmark_map, i) ==
    LET keys == {key \in 0..(i - 1) :
                    /\ IsAdded(bookmark_map, key)
                    /\ bms[key + 1].level < bms[i + 1].level}
    IN  IF keys = {} THEN None
        ELSE Some(CHOOSE k \in keys : \A j \in keys : k >= j)

(* the page test of line 507                                               *)
page_in_range(page_num, page_count) ==
    ~IsNone(page_num) /\ 1 <= Val(page_num) /\ Val(page_num) <= page_count

(* the loop body for bookmark i: the outline item added, or None           *)
outline_item(bms, bookmark_map, i, page_count) ==
    LET bookmark == bms[i + 1]
        item(parent) == Some([title |-> bookmark.title,
                              page_index |-> Val(bookmark.page) - 1,
                              parent |-> parent])
    IN  IF page_in_range(bookmark.page, page_count)
        THEN IF bookmark.level = 0 THEN item(None)
             ELSE IF bookmark.level > 0
                  THEN item(parent_key(bms, bookmark_map, i))
                  ELSE None
        ELSE None

(* bookmark_map after the first n bookmarks                                *)
RECURSIVE add_outline(_, _, _)
add_outline(bms, n, page_count) ==
    IF n = 0 THEN <<>>
    ELSE LET bookmark_map == add_outline(bms, n - 1, page_count)
         IN  Append(bookmark_map,
                    outline_item(bms, bookmark_map, n - 1, page_count))

(* bookmarks_added when the loop ends                                      *)
bookmarks_added(bookmark_map) ==
    Cardinality({k \in 1..Len(bookmark_map) : ~IsNone(bookmark_map[k])})

----------------------------------------------------------------------------
(* Operations of PDFBookmarkGenerator as actions                           *)

(* the end of a mutating call that ran on frame f after save_state:        *)
(* save_draft runs only when no statement raised                           *)
Finish(op, input, f) ==
    /\ bookmarks' = f.b
    /\ original_bookmarks' = f.ob
    /\ history' = save_state(history, copy_list(bookmarks, f.b),
                             copy_list(original_bookmarks, f.ob), offset)
    /\ draft' = IF f.raised THEN draft
                ELSE save_draft(f.b, f.ob, offset, content_start_page)
    /\ ret' = [op |-> op, input |-> input, value |-> None, raised |-> f.raised]
    /\ Called(op)
    /\ UNCHANGED <<offset, content_start_page>>

(* a call whose index guard fails: nothing happens                         *)
Skip(op, input) ==
    /\ ret' = [op |-> op, input |-> input, value |-> None, raised |-> FALSE]
    /\ Called(op)
    /\ UNCHANGED <<bookmarks, original_bookmarks, offset, content_start_page,
                   history, draft>>

(* PDFBookmarkGenerator(): a new session.  __init__ sets the empty store   *)
(* and an empty history, then load_draft reads the draft file if it exists *)
PDFBookmarkGenerator ==
    LET store == load_draft(draft)
    IN  /\ bookmarks' = store.bookmarks
        /\ original_bookmarks' = store.original_bookmarks
        /\ offset' = store.offset
        /\ content_start_page' = store.content_start_page
        /\ history' = <<>>
        /\ ret' = [op |-> "__init__", input |-> draft, value |-> None,
                   raised |-> FALSE]
        /\ Called("__init__")
        /\ UNCHANGED draft

parse_toc_text(toc_text) ==
    /\ history' = save_state(history, bookmarks, original_bookmarks, offset)
    /\ original_bookmarks' = parse_result(toc_text)
    /\ draft' = save_draft(bookmarks, original_bookmarks', offset,
                           content_start_page)
    /\ ret' = [op |-> "parse_toc_text", input |-> toc_text,
               value |-> parse_result(toc_text), raised |-> FALSE]
    /\ Called("parse_toc_text")
    /\ UNCHANGED <<bookmarks, offset, content_start_page>>

add_bookmark(title, page, level) ==
    Finish("add_bookmark", Entry(title, page, level),
           add_bookmark_lists(Frame(bookmarks, original_bookmarks),
                              title, page, level))

remove_bookmark(index) ==
    IF InRange(index, bookmarks)
    THEN Finish("remove_bookmark", [index |-> index],
                remove_bookmark_lists(Frame(bookmarks, original_bookmarks),
                                      index))
    ELSE Skip("remove_bookmark", [index |-> index])

update_bookmark(index, title, page, level) ==
    LET input == [index |-> index, title |-> title, page |-> page,
                  level |-> level]
    IN  IF InRange(index, bookmarks)
        THEN Finish("update_bookmark", input,
                    update_bookmark_lists(Frame(bookmarks, original_bookmarks),
                                          index, title, page, level))
        ELSE Skip("update_bookmark", input)

move_bookmark(index, direction) ==
    LET input == [index |-> index, direction |-> direction]
    IN  IF InRange(index, bookmarks)
        THEN Finish("move_bookmark", input,
                    move_bookmark_lists(Frame(bookmarks, original_bookmarks),
                                        index, direction))
        ELSE Skip("move_bookmark", input)

batch_update_bookmarks(indices, title_prefix, page_offset, level_offset) ==
    Finish("batch_update_bookmarks",
           [indices |-> indices, title_prefix |-> title_prefix,
            page_offset |-> page_offset, level_offset |-> level_offset],
           batch_update_lists(Frame(bookmarks, original_bookmarks),
                              indices, title_prefix, page_offset,
                              level_offset))

(* undo popping the newest snapshot before it tests the length             *)
undo_popping_first ==
    LET h == SubSeq(history, 1, Len(history) - 1)
    IN  /\ history' = h
        /\ IF h # <<>>
           THEN /\ bookmarks' = h[Len(h)].bookmarks
                /\ original_bookmarks' = h[Len(h)].original_bookmarks
                /\ offset' = h[Len(h)].offset
                /\ draft' = save_draft(bookmarks', original_bookmarks',
                                       offset', content_start_page)
                /\ ret' = [op |-> "undo", input |-> None, value |-> TRUE,
                           raised |-> FALSE]
           ELSE /\ ret' = [op |-> "undo", input |-> None, value |-> FALSE,
                           raised |-> FALSE]
                /\ UNCHANGED <<bookmarks, original_bookmarks, offset, draft>>
        /\ log' = Append(log, "undo")
        /\ UNCHANGED content_start_page

(* undo restoring the snapshot it pops instead of the one below it         *)
undo_restoring_popped ==
    /\ IF Len(history) > 1
       THEN LET popped == history[Len(history)]
            IN  /\ history' = SubSeq(history, 1, Len(history) - 1)
                /\ bookmarks' = popped.bookmarks
                /\ original_bookmarks' = popped.original_bookmarks
                /\ offset' = popped.offset
                /\ draft' = save_draft(bookmarks', original_bookmarks',
                                       offset', content_start_page)
                /\ ret' = [op |-> "undo", input |-> None, value |-> TRUE,
                           raised |-> FALSE]
       ELSE /\ ret' = [op |-> "undo", input |-> None, value |-> FALSE,
                       raised |-> FALSE]
            /\ UNCHANGED <<bookmarks, original_bookmarks, offset, history,
                           draft>>
    /\ log' = Append(log, "undo")
    /\ UNCHANGED content_start_page

undo ==
    /\ IF Len(history) > 1
       THEN LET h == SubSeq(history, 1, Len(history) - 1)
                prev_state == h[Len(h)]
            IN  /\ history' = h
                /\ bookmarks' = prev_state.bookmarks
                /\ original_bookmarks' = prev_state.original_bookmarks
                /\ offset' = prev_state.offset
                /\ draft' = save_draft(prev_state.bookmarks,
                                       prev_state.original_bookmarks,
                                       prev_state.offset, content_start_page)
                /\ ret' = [op |-> "undo", input |-> None, value |-> TRUE,
                           raised |-> FALSE]
       ELSE /\ ret' = [op |-> "undo", input |-> None, value |-> FALSE,
                       raised |-> FALSE]
            /\ UNCHANGED <<bookmarks, original_bookmarks, offset, history,
                           draft>>
    /\ Called("undo")
    /\ UNCHANGED content_start_page

(* import_bookmarks(file_path).  file is what open and json.load make of   *)
(* the path: kind "missing" when either raises, kind "list" for JSON that  *)
(* is not an object (import_data.get raises after save_state has run),     *)
(* kind "dict" for an object, whose keys are the domain of file.data.      *)
import_bookmarks(file) ==
    LET get(key, default) == IF key \in DOMAIN file.data THEN file.data[key]
                             ELSE default
        returns(value) == ret' = [op |-> "import_bookmarks", input |-> file,
                                  value |-> value, raised |-> FALSE]
    IN  /\ CASE file.kind = "missing" ->
                  /\ returns(FALSE)
                  /\ UNCHANGED <<bookmarks, original_bookmarks, offset,
                                 history, draft>>
             [] file.kind = "list" ->
                  /\ history' = save_state(history, bookmarks,
                                           original_bookmarks, offset)
                  /\ returns(FALSE)
                  /\ UNCHANGED <<bookmarks, original_bookmarks, offset, draft>>
             [] file.kind = "dict" ->
                  /\ history' = save_state(history, bookmarks,
                                           original_bookmarks, offset)
                  /\ bookmarks' = get("bookmarks", <<>>)
                  /\ original_bookmarks' = get("original_bookmarks", <<>>)
                  /\ offset' = get("offset", 0)
                  /\ draft' = save_draft(bookmarks', original_bookmarks',
                                         offset', content_start_page)
                  /\ returns(TRUE)
        /\ Called("import_bookmarks")
        /\ UNCHANGED content_start_page

(* a direct call generator.apply_offset(list, offset) on one of the two    *)
(* lists of the store; the list object passed is the store's own           *)
call_apply_offset(which, off) ==
    /\ which \in {"bookmarks", "original_bookmarks"}
    /\ LET arg == IF which = "bookmarks" THEN bookmarks
                  ELSE original_bookmarks
           r == apply_offset(arg, off, offset)
       IN  /\ bookmarks' = IF which = "bookmarks" THEN r.bookmarks
                           ELSE bookmarks
           /\ original_bookmarks' = IF which = "original_bookmarks"
                                    THEN r.bookmarks ELSE original_bookmarks
           /\ ret' = [op |-> "apply_offset",
                      input |-> [bookmarks |-> arg, offset |-> off],
                      value |-> r.result, raised |-> FALSE]
    /\ Called("apply_offset")
    /\ UNCHANGED <<offset, content_start_page, history, draft>>

(* /apply_offset applied to the current list instead of the original one   *)
post_apply_offset_incremental(off) ==
    /\ offset' = off
    /\ bookmarks' = [i \in 1..Len(bookmarks) |->
                        IF IsNone(bookmarks[i].page) THEN bookmarks[i]
                        ELSE [bookmarks[i] EXCEPT !.page = Some(Val(@) + off)]]
    /\ ret' = [op |-> "/apply_offset", input |-> off, value |-> bookmarks',
               raised |-> FALSE]
    /\ log' = Append(log, "/apply_offset")
    /\ UNCHANGED <<original_bookmarks, content_start_page, history, draft>>

(* do_POST, path /apply_offset                                             *)
post_apply_offset(off) ==
    /\ offset' = off
    /\ LET r == apply_offset(original_bookmarks, Some(off), off)
       IN  /\ bookmarks' = r.result
           /\ original_bookmarks' = r.bookmarks
    /\ ret' = [op |-> "/apply_offset", input |-> off, value |-> bookmarks',
               raised |-> FALSE]
    /\ Called("/apply_offset")
    /\ UNCHANGED <<content_start_page, history, draft>>

(* a call of calculate_offset(content_start_page)                          *)
call_calculate_offset(arg) ==
    /\ ret' = [op |-> "calculate_offset", input |-> arg,
               value |-> calculate_offset(arg, content_start_page),
               raised |-> FALSE]
    /\ Called("calculate_offset")
    /\ UNCHANGED <<bookmarks, original_bookmarks, offset, content_start_page,
                   history, draft>>

(* generation that calls clear_draft before it returns, whatever it       *)
(* returns                                                                 *)
generate_pdf_clearing_always(uploaded_file, write_ok) ==
    LET input == [uploaded_file |-> uploaded_file, write_ok |-> write_ok]
        fails == IsNone(uploaded_file) \/ bookmarks = <<>> \/ ~write_ok
        bookmark_map == IF fails THEN <<>>
                        ELSE add_outline(bookmarks, Len(bookmarks),
                                         Val(uploaded_file))
    IN  /\ ret' = [op |-> "generate_pdf_with_bookmarks", input |-> input,
                   value |-> [result |-> ~fails,
                              bookmark_map |-> bookmark_map,
                              bookmarks_added |->
                                  bookmarks_added(bookmark_map)],
                   raised |-> FALSE]
        /\ draft' = None
        /\ Called("generate_pdf_with_bookmarks")
        /\ UNCHANGED <<bookmarks, original_bookmarks, offset,
                       content_start_page, history>>

(* generate_pdf_with_bookmarks with PyPDF2 installed.  uploaded_file is    *)
(* None, or the page count of the uploaded document; write_ok tells        *)
(* whether reading the document and writing the output succeed.  The       *)
(* value holds what the call returns, the outline given to the writer and  *)
(* the count printed after the loop.                                       *)
generate_pdf_with_bookmarks(uploaded_file, write_ok) ==
    LET input == [uploaded_file |-> uploaded_file, write_ok |-> write_ok]
        failed == [result |-> FALSE, bookmark_map |-> <<>>,
                   bookmarks_added |-> 0]
        bookmark_map == add_outline(bookmarks, Len(bookmarks),
                                    Val(uploaded_file))
    IN  /\ IF IsNone(uploaded_file) \/ bookmarks = <<>> \/ ~write_ok
           THEN /\ ret' = [op |-> "generate_pdf_with_bookmarks",
                           input |-> input, value |-> failed,
                           raised |-> FALSE]
                /\ UNCHANGED draft
           ELSE /\ ret' = [op |-> "generate_pdf_with_bookmarks",
                           input |-> input,
                           value |-> [result |-> TRUE,
                                      bookmark_map |-> bookmark_map,
                                      bookmarks_added |->
                                          bookmarks_added(bookmark_map)],
                           raised |-> FALSE]
                /\ draft' = None
        /\ Called("generate_pdf_with_bookmarks")
        /\ UNCHANGED <<bookmarks, original_bookmarks, offset,
                       content_start_page, history>>

----------------------------------------------------------------------------
(* Pasted texts                                                            *)

zh_jie == "U+8282"   \* the section keyword jie
zh_xiao == "U+5C0F"  \* xiao; xiao jie is the subsection keyword

(* "# Title 5\n## Sub 6"                                                   *)
TextMarkdown ==
    <<"#", " ", "T", "i", "t", "l", "e", " ", "5", "\n",
      "#", "#", " ", "S", "u", "b", " ", "6">>
(* "1.1.1 Detail 10"                                                       *)
TextDetail ==
    <<"1", ".", "1", ".", "1", " ", "D", "e", "t", "a", "i", "l", " ",
      "1", "0">>
(* "1.2.3.4.5 Deep 9"                                                      *)
TextDeep ==
    <<"1", ".", "2", ".", "3", ".", "4", ".", "5", " ", "D", "e", "e", "p",
      " ", "9">>
(* "Appendix"                                                              *)
TextAppendix == <<"A", "p", "p", "e", "n", "d", "i", "x">>
(* "a 1\n1.1 b 2"                                                          *)
TextTwoLevels == <<"a", " ", "1", "\n", "1", ".", "1", " ", "b", " ", "2">>
(* "# c"                                                                   *)
TextNoPage == <<"#", " ", "c">>
(* "\na 1\n\n  \nb 2\n": blank lines around and between two entries       *)
TextBlankLines ==
    <<"\n", "a", " ", "1", "\n", "\n", " ", " ", "\n", "b", " ", "2", "\n">>

(* "x\n    a": the second line is indented by four spaces                  *)
TextIndented == <<"x", "\n", " ", " ", " ", " ", "a">>

ExampleTexts ==
    {TextMarkdown, TextDetail, TextDeep, TextAppendix, TextTwoLevels,
     TextNoPage, TextBlankLines, TextIndented}

(* every text of at most MaxTextLen characters over a small alphabet       *)
ParseAlphabet == {"#", " ", "\n", "1", ".", "a", zh_jie, zh_xiao}

SmallTexts ==
    UNION { [1..n -> ParseAlphabet] : n \in 0..MaxTextLen }

(* "1", "1.1", "1.1.1", ... with d dots                                    *)
RECURSIVE Numbering(_)
Numbering(d) == IF d = 0 THEN <<"1">> ELSE Numbering(d - 1) \o <<".", "1">>

(* a line with a numbering of up to MaxDots dots, a word, an optional      *)
(* keyword and a page number; it starts the text, follows a marker glyph,  *)
(* or is the second line, indented by four spaces                          *)
DottedTexts ==
    { lead \o Numbering(d) \o <<" ", "a">> \o kw \o <<" ", "7">> :
        lead \in {<<>>, <<"*", " ">>, <<"x", "\n", " ", " ", " ", " ">>},
        d \in 0..MaxDots,
        kw \in {<<>>, <<zh_jie>>, <<zh_xiao, zh_jie>>} }

ParseTexts == ExampleTexts \cup SmallTexts \cup DottedTexts

StoreTexts == {TextTwoLevels, TextNoPage}

----------------------------------------------------------------------------
(* Specifications                                                          *)

Init ==
    /\ bookmarks = <<>>
    /\ original_bookmarks = <<>>
    /\ offset = 0
    /\ content_start_page = Some(1)
    /\ history = <<>>
    /\ draft = None
    /\ ret = [op |-> "init", input |-> None, value |-> None, raised |-> FALSE]
    /\ log = <<>>

Offsets == {-1, 2}

(* files given to import_bookmarks: an unreadable one, a JSON list, an     *)
(* empty JSON object and an exported store of one entry shifted by 1       *)
ImportFiles ==
    { [kind |-> "missing"], [kind |-> "list"],
      [kind |-> "dict", data |-> << >>],
      [kind |-> "dict",
       data |-> [bookmarks |-> << Entry(<<"i">>, Some(2), 0) >>,
                 original_bookmarks |-> << Entry(<<"i">>, Some(1), 0) >>,
                 offset |-> 1]] }

(* a run makes at most MaxOps calls                                        *)
CanCall == Len(log) < MaxOps

Next ==
    \/ CanCall /\ \E t \in StoreTexts : parse_toc_text(t)
    \/ CanCall /\ \E page \in {None, Some(1)}, level \in {-1, 1, 4} :
          add_bookmark(<<"n">>, page, level)
    \/ CanCall /\ \E index \in {-1, 0, 1} : remove_bookmark(index)
    \/ CanCall /\ \E index \in {0, 1, 2},
          u \in { <<Some(<<"u">>), None, None>>, <<None, Some(3), None>>,
                  <<None, None, Some(5)>>, <<None, None, None>> } :
          update_bookmark(index, u[1], u[2], u[3])
    \/ CanCall /\ \E index \in {0, 1}, direction \in {"up", "down"} :
          move_bookmark(index, direction)
    \/ CanCall /\ \E indices \in {<<0>>, <<1, 0>>, <<0, 7>>},
          u \in { <<Some(<<"p">>), None, None>>, <<None, Some(1), None>>,
                  <<None, None, Some(2)>>, <<None, None, Some(-1)>> } :
          batch_update_bookmarks(indices, u[1], u[2], u[3])
    \/ CanCall /\ \E off \in Offsets : post_apply_offset(off)
    \/ CanCall /\ \E which \in {"bookmarks", "original_bookmarks"},
          off \in {None} \cup {Some(o) : o \in Offsets} :
          call_apply_offset(which, off)
    \/ CanCall /\ \E file \in ImportFiles : import_bookmarks(file)
    \/ CanCall /\ undo

Spec == Init /\ [][Next]_vars

(* the parser alone, on every text of ParseTexts                           *)
NextParse == log = <<>> /\ \E t \in ParseTexts : parse_toc_text(t)

SpecParse == Init /\ [][NextParse]_vars

(* the offset calculation, for every stored and supplied start page        *)
StartPages == {None} \cup {Some(p) : p \in -2..MaxPage}

InitOffset ==
    /\ bookmarks = <<>>
    /\ original_bookmarks = <<>>
    /\ offset = 0
    /\ content_start_page \in StartPages
    /\ history = <<>>
    /\ draft = None
    /\ ret = [op |-> "init", input |-> None, value |-> None, raised |-> FALSE]
    /\ log = <<>>

NextOffset == log = <<>> /\ \E arg \in StartPages : call_calculate_offset(arg)

SpecOffset == InitOffset /\ [][NextOffset]_vars

(* the edit operations alone, with arbitrary integer levels                *)
NextEdit ==
    \/ CanCall /\ \E page \in {None, Some(1)}, level \in {-1, 1, 4} :
          add_bookmark(<<"n">>, page, level)
    \/ CanCall /\ \E index \in {0, 1, 2}, level \in {-2, 0, 3, 5} :
          update_bookmark(index, None, None, Some(level))
    \/ CanCall /\ \E indices \in {<<0>>, <<1, 0>>, <<0, 7>>},
                      d \in {-4, -1, 2, 4} :
          batch_update_bookmarks(indices, None, None, Some(d))

SpecEdit == Init /\ [][NextEdit]_vars

(* adding, parsing, moving, removing and updating, in runs of up to        *)
(* MaxMoveOps calls                                                        *)
CanCallMove == Len(log) < MaxMoveOps

NextMove ==
    \/ CanCallMove /\ \E page \in {None, Some(1)} :
          add_bookmark(<<"n">>, page, 1)
    \/ CanCallMove /\ \E t \in StoreTexts : parse_toc_text(t)
    \/ CanCallMove /\ \E index \in {0, 1, 2}, direction \in {"up", "down"} :
          move_bookmark(index, direction)
    \/ CanCallMove /\ \E index \in {-1, 0, 1, 2} : remove_bookmark(index)
    \/ CanCallMove /\ \E index \in {-1, 0, 2} :
          update_bookmark(index, Some(<<"u">>), None, None)

SpecMove == Init /\ [][NextMove]_vars

(* building an outline entry by entry and writing it to a document         *)
CanCallOutline == Len(log) < MaxOutlineOps

(* <<level, page>> of the entries added                                    *)
OutlineEntries ==
    { <<0, Some(1)>>, <<1, Some(2)>>, <<0, Some(3)>>, <<2, Some(2)>>,
      <<2, Some(3)>>, <<1, None>>, <<1, Some(0)>>, <<-1, Some(1)>> }

(* <<uploaded_file, write_ok>>: no document, documents of two and three    *)
(* pages, and a document whose output cannot be written                    *)
Documents ==
    { <<None, TRUE>>, <<Some(2), TRUE>>, <<Some(3), TRUE>>,
      <<Some(3), FALSE>> }

NextOutline ==
    \/ CanCallOutline /\ \E e \in OutlineEntries :
          add_bookmark(<<"n">>, e[2], e[1])
    \/ CanCallOutline /\ \E d \in Documents :
          generate_pdf_with_bookmarks(d[1], d[2])

SpecOutline == Init /\ [][NextOutline]_vars

(* outlines of up to four nested entries, written to a one-page document   *)
CanCallNesting == Len(log) < MaxNestingOps

NestingEntries ==
    { <<0, Some(1)>>, <<1, Some(1)>>, <<2, Some(1)>>, <<3, Some(1)>>,
      <<1, None>> }

NextNesting ==
    \/ CanCallNesting /\ \E e \in NestingEntries :
          add_bookmark(<<"n">>, e[2], e[1])
    \/ CanCallNesting /\ \E uploaded_file \in {None, Some(1)} :
          generate_pdf_with_bookmarks(uploaded_file, TRUE)

SpecNesting == Init /\ [][NextNesting]_vars

(* sessions: every call that writes the draft, the offset handler, the     *)
(* generation that deletes it, and the start of a new session              *)
CanCallDraft == Len(log) < MaxDraftOps

NextDraft ==
    \/ CanCallDraft /\ parse_toc_text(TextMarkdown)
    \/ CanCallDraft /\ add_bookmark(<<"n">>, Some(1), 1)
    \/ CanCallDraft /\ \E index \in {0, 1} : remove_bookmark(index)
    \/ CanCallDraft /\ update_bookmark(0, Some(<<"u">>), None, None)
    \/ CanCallDraft /\ move_bookmark(0, "down")
    \/ CanCallDraft /\
          batch_update_bookmarks(<<0>>, None, Some(1), None)
    \/ CanCallDraft /\ undo
    \/ CanCallDraft /\ \E file \in ImportFiles : import_bookmarks(file)
    \/ CanCallDraft /\ post_apply_offset(2)
    \/ CanCallDraft /\ \E uploaded_file \in {None, Some(1)} :
          generate_pdf_with_bookmarks(uploaded_file, TRUE)
    \/ CanCallDraft /\ PDFBookmarkGenerator

SpecDraft == Init /\ [][NextDraft]_vars

(* long runs of additions and undos                                        *)
CanCallUndo == Len(log) < MaxUndoOps

NextUndo ==
    \/ CanCallUndo /\ add_bookmark(<<"n">>, None, 0)
    \/ CanCallUndo /\ undo

SpecUndo == Init /\ [][NextUndo]_vars

----------------------------------------------------------------------------
(* Properties                                                              *)

EditOps == {"add_bookmark", "remove_bookmark", "update_bookmark",
            "move_bookmark", "batch_update_bookmarks"}

(* equal length, and the same title and level at every index              *)
Aligned(b, ob) ==
    /\ Len(b) = Len(ob)
    /\ \A i \in 1..Len(b) :
          b[i].title = ob[i].title /\ b[i].level = ob[i].level

LevelsInRange(list) == \A i \in 1..Len(list) : list[i].level \in 0..3

(* the snapshot save_state took at the start of the last mutating call     *)
Before == history[Len(history)]

(* C1: an add, remove, update, move or batchUpdate call made on a store    *)
(* whose current and original lists are aligned (equal length, equal       *)
(* title and level at every index) leaves them aligned.                    *)
C1_EditsKeepAlignment ==
    [][(log' # log /\ ret'.op \in EditOps
          /\ Aligned(bookmarks, original_bookmarks))
        => Aligned(bookmarks', original_bookmarks')]_vars

(* a batch update has changed an aligned store of two entries              *)
C1_Witness ==
    /\ ret.op = "batch_update_bookmarks"
    /\ history # <<>>
    /\ Len(Before.bookmarks) = 2
    /\ Aligned(Before.bookmarks, Before.original_bookmarks)
    /\ bookmarks # Before.bookmarks
    /\ Aligned(bookmarks, original_bookmarks)

(* C2: current and original have the same length in every state reached    *)
(* from the empty store.                                                   *)
C2_SameLength == Len(bookmarks) = Len(original_bookmarks)

(* C3: every entry returned by parseTocText has a level in 0..3.           *)
C3_ParsedLevelsInRange ==
    ret.op = "parse_toc_text" => LevelsInRange(ret.value)

(* C4: after any sequence of add, update and batchUpdate calls every       *)
(* entry of current and of original has a level in 0..3.                   *)
C4_StoredLevelsInRange ==
    LevelsInRange(bookmarks) /\ LevelsInRange(original_bookmarks)

(* the offset a call of apply_offset works with                            *)
EffectiveOffset(off, self_offset) ==
    IF IsNone(off) THEN self_offset ELSE Val(off)

(* C5: applying offset k and then -k gives back the input entry for        *)
(* entry, and an entry with a null page keeps a null page.                 *)
C5_OffsetRoundTrip ==
    ret.op = "apply_offset" =>
        LET k == EffectiveOffset(ret.input.offset, offset)
            back == apply_offset(ret.value, Some(0 - k), offset).result
        IN  /\ back = ret.input.bookmarks
            /\ \A i \in 1..Len(ret.value) :
                  IsNone(ret.input.bookmarks[i].page)
                      => IsNone(ret.value[i].page)

(* apply_offset has shifted a list holding a null page and a page by a     *)
(* non-zero offset                                                         *)
C5_Witness ==
    /\ ret.op = "apply_offset"
    /\ EffectiveOffset(ret.input.offset, offset) = -1
    /\ \E i, j \in 1..Len(ret.value) :
          /\ IsNone(ret.value[i].page)
          /\ ret.value[j].page = Some(0)

(* C6: a call of applyOffset leaves its input list, current, original,     *)
(* the stored offset and the undo log unchanged; the returned list has     *)
(* the length, order, titles and levels of the input, null pages stay      *)
(* null and every other page is the input's page plus the offset.          *)
C6_ApplyOffsetIsPure ==
    [][(log' # log /\ ret'.op = "apply_offset") =>
          LET inp == ret'.input.bookmarks
              out == ret'.value
              k == EffectiveOffset(ret'.input.offset, offset)
          IN  /\ inp \in {bookmarks, original_bookmarks}
              /\ UNCHANGED <<bookmarks, original_bookmarks, offset, history>>
              /\ Len(out) = Len(inp)
              /\ \A i \in 1..Len(inp) :
                    /\ out[i].title = inp[i].title
                    /\ out[i].level = inp[i].level
                    /\ IF IsNone(inp[i].page) THEN IsNone(out[i].page)
                       ELSE out[i].page = Some(Val(inp[i].page) + k)
      ]_vars

(* apply_offset has returned shifted pages for the store's current list,   *)
(* which still holds the unshifted pages, with snapshots in the undo log   *)
C6_Witness ==
    /\ ret.op = "apply_offset"
    /\ ret.input.bookmarks = bookmarks
    /\ ret.value # bookmarks
    /\ \E i \in 1..Len(bookmarks) : ~IsNone(bookmarks[i].page)
    /\ Len(history) >= 2

(* C7: /apply_offset with o2 right after /apply_offset with o1 sets, at    *)
(* every index with a non-null page, current's page to original's page     *)
(* plus o2, stores o2 as the offset and leaves original unchanged.         *)
C7_OffsetRecomputedFromOriginal ==
    [][(log' # log /\ ret.op = "/apply_offset" /\ ret'.op = "/apply_offset")
        => /\ offset' = ret'.input
           /\ original_bookmarks' = original_bookmarks
           /\ Len(bookmarks') = Len(original_bookmarks)
           /\ \A i \in 1..Len(original_bookmarks) :
                 IF IsNone(original_bookmarks[i].page)
                 THEN IsNone(bookmarks'[i].page)
                 ELSE bookmarks'[i].page
                        = Some(Val(original_bookmarks[i].page) + ret'.input)
      ]_vars

(* two /apply_offset requests in a row on a parsed outline with pages      *)
C7_Witness ==
    /\ Len(log) >= 3
    /\ log[Len(log)] = "/apply_offset"
    /\ log[Len(log) - 1] = "/apply_offset"
    /\ offset = 2
    /\ Len(bookmarks) = 2
    /\ original_bookmarks[1].page = Some(1)
    /\ bookmarks[1].page = Some(3)

(* C8: calculateOffset returns the supplied page minus 1 when a positive   *)
(* page is supplied, otherwise the stored page minus 1 when the stored     *)
(* page is positive, otherwise 0; the result is never negative.            *)
C8_CalculateOffset ==
    ret.op = "calculate_offset" =>
        LET supplied == ret.input
            stored == content_start_page
            positive(p) == ~IsNone(p) /\ Val(p) > 0
        IN  /\ positive(supplied) => ret.value = Val(supplied) - 1
            /\ ~positive(supplied) /\ positive(stored)
                  => ret.value = Val(stored) - 1
            /\ ~positive(supplied) /\ ~positive(stored) => ret.value = 0
            /\ ret.value >= 0

(* a non-positive page was supplied and the stored page decided            *)
C8_Witness ==
    /\ ret.op = "calculate_offset"
    /\ ret.input = Some(0)
    /\ content_start_page = Some(4)
    /\ ret.value = 3

(* C9: parsing "# Title 5\n## Sub 6" yields {Title, 5, 0}, {Sub, 6, 1}:    *)
(* the title of a Markdown heading does not include the page number.       *)
C9_MarkdownExample ==
    (ret.op = "parse_toc_text" /\ ret.input = TextMarkdown) =>
        ret.value = << Entry(<<"T", "i", "t", "l", "e">>, Some(5), 0),
                       Entry(<<"S", "u", "b">>, Some(6), 1) >>

AllKeywords ==
    front_matter_keywords \cup chapter_keywords \cup section_keywords
        \cup subsection_keywords

(* C10: a non-Markdown line without keywords whose title starts with a     *)
(* dotted numbering of k <= 3 dots gets level k and keeps the numbering    *)
(* in its title; "1.1.1 Detail 10" yields {"1.1.1 Detail", 10, 2}.         *)
C10_DottedNumberingLevel ==
    ret.op = "parse_toc_text" =>
        /\ \A i \in 1..Len(ret.value) :
              LET line == toc_lines(ret.input)[i]
                  e == ret.value[i]
                  numbering == chapter_match(e.title)
              IN  ( /\ IsNone(markdown_match(line))
                    /\ ~AnyKeyword(e.title, AllKeywords)
                    /\ numbering # <<>>
                    /\ CountDots(numbering) <= 3 )
                  => e.level = CountDots(numbering)
        /\ ret.input = TextDetail =>
              ret.value = << Entry(<<"1", ".", "1", ".", "1", " ", "D", "e",
                                     "t", "a", "i", "l">>, Some(10), 2) >>

(* the numbered example line has been parsed                               *)
C10_Witness ==
    /\ ret.op = "parse_toc_text"
    /\ ret.input = TextDetail
    /\ Len(ret.value) = 1
    /\ ret.value[1].level = 2

(* a candidate title as it is displayed: trimmed, dot leaders removed      *)
Tidy(s) == Strip(remove_leaders(Strip(s)))

(* C11: a line that does not end in a run of digits yields a null page     *)
(* and the whole marker-stripped line as its title; a line that ends in a  *)
(* run of digits yields that run's value as its page and the text before   *)
(* the run as its title; "Appendix" yields {"Appendix", null, 0}.          *)
C11_PageAndTitle ==
    ret.op = "parse_toc_text" =>
        /\ \A i \in 1..Len(ret.value) :
              LET line == strip_prefixes(toc_lines(ret.input)[i])
                  body == RStrip(line)
                  d == TrailingRun(body, Digits)
                  e == ret.value[i]
              IN  IF d = 0
                  THEN IsNone(e.page) /\ e.title = Tidy(line)
                  ELSE /\ e.page = Some(ToInt(SubSeq(body, Len(body) - d + 1,
                                                     Len(body))))
                       /\ e.title = Tidy(SubSeq(body, 1, Len(body) - d))
        /\ ret.input = TextAppendix =>
              ret.value = << Entry(TextAppendix, None, 0) >>

(* the lines of a text that are not blank after trimming, in input order   *)
NonBlankLines(text) ==
    SelectSeq(Split(text, "\n"), LAMBDA l : Strip(l) # <<>>)

(* C12: parseTocText returns exactly one entry per input line that is      *)
(* non-blank after trimming, in the order of the input lines (an empty or  *)
(* all-blank text gives the empty sequence), and after the call original   *)
(* is an entry-for-entry copy of the returned sequence.                    *)
C12_OneEntryPerLine ==
    ret.op = "parse_toc_text" =>
        LET lines == NonBlankLines(ret.input)
        IN  /\ Len(ret.value) = Len(lines)
            /\ \A i \in 1..Len(lines) :
                  ret.value[i].page = page_of(strip_prefixes(Strip(lines[i])))
            /\ original_bookmarks = ret.value

(* a text with blank lines before, between and after two lines has been    *)
(* parsed into two entries, in input order                                 *)
C12_Witness ==
    /\ ret.op = "parse_toc_text"
    /\ ret.input = TextBlankLines
    /\ Len(Split(ret.input, "\n")) = 6
    /\ Len(ret.value) = 2
    /\ ret.value[1].page = Some(1)
    /\ ret.value[2].page = Some(2)
    /\ original_bookmarks = ret.value

(* new is list with the entries at the 0-based indices i and j exchanged   *)
(* and every other entry in place                                          *)
Swapped(list, new, i, j) ==
    /\ InRange(i, list) /\ InRange(j, list)
    /\ Len(new) = Len(list)
    /\ \A k \in 1..Len(list) :
          new[k] = IF k = i + 1 THEN list[j + 1]
                   ELSE IF k = j + 1 THEN list[i + 1]
                   ELSE list[k]

(* C13: move(index, up) with 0 < index < length swaps the entries at       *)
(* index and index-1 in both current and original and leaves the others    *)
(* in place, move(index, down) with index < length-1 does so with index+1; *)
(* move(0, up) and move(length-1, down) leave both lists as they were and  *)
(* raise no error.                                                         *)
C13_MoveSwapsBoth ==
    [][(log' # log /\ ret'.op = "move_bookmark") =>
          LET index == ret'.input.index
              up == ret'.input.direction = "up"
              down == ret'.input.direction = "down"
              length == Len(bookmarks)
          IN  /\ (up /\ 0 < index /\ index < length) =>
                    /\ Swapped(bookmarks, bookmarks', index, index - 1)
                    /\ Swapped(original_bookmarks, original_bookmarks',
                               index, index - 1)
              /\ (down /\ 0 <= index /\ index < length - 1) =>
                    /\ Swapped(bookmarks, bookmarks', index, index + 1)
                    /\ Swapped(original_bookmarks, original_bookmarks',
                               index, index + 1)
              /\ ((up /\ index = 0) \/ (down /\ index = length - 1)) =>
                    /\ UNCHANGED <<bookmarks, original_bookmarks>>
                    /\ ~ret'.raised
      ]_vars

(* the outline written by the last generation, and its entries             *)
Outline == ret.value.bookmark_map

Generated ==
    ret.op = "generate_pdf_with_bookmarks" /\ ret.value.result

Attached(i) == ~IsNone(Outline[i + 1])

ParentOf(i) == Val(Outline[i + 1]).parent

(* C14: an attached entry at index i with level > 0 is a child of the      *)
(* most recently attached entry with index < i whose level is strictly     *)
(* less than its own, and top-level when there is none; an attached        *)
(* level-0 entry is top-level.  For [{level 0, page 1}, {level 1, page 2}, *)
(* {level 0, page 3}] and a 3-page document node 1 is a child of node 0    *)
(* and node 2 is top-level.                                                *)
C14_OutlineNesting ==
    Generated =>
        /\ \A i \in 0..(Len(bookmarks) - 1) :
              Attached(i) =>
                LET level == bookmarks[i + 1].level
                    lower == {k \in 0..(i - 1) :
                                 Attached(k) /\ bookmarks[k + 1].level < level}
                IN  /\ level = 0 => IsNone(ParentOf(i))
                    /\ (level > 0 /\ lower = {}) => IsNone(ParentOf(i))
                    /\ (level > 0 /\ lower # {}) =>
                          /\ ~IsNone(ParentOf(i))
                          /\ Val(ParentOf(i)) \in lower
                          /\ \A k \in lower : k <= Val(ParentOf(i))
        /\ ( /\ bookmarks = << Entry(<<"n">>, Some(1), 0),
                               Entry(<<"n">>, Some(2), 1),
                               Entry(<<"n">>, Some(3), 0) >>
             /\ ret.input.uploaded_file = Some(3) ) =>
              /\ Attached(0) /\ Attached(1) /\ Attached(2)
              /\ ParentOf(1) = Some(0)
              /\ IsNone(ParentOf(2))

(* a level-2 entry has been attached under a level-1 entry that is itself  *)
(* a child of a level-0 entry                                              *)
C14_Witness ==
    /\ Generated
    /\ Len(bookmarks) = 3
    /\ bookmarks[1].level = 0 /\ bookmarks[2].level = 1
    /\ bookmarks[3].level = 2
    /\ Attached(0) /\ Attached(1) /\ Attached(2)
    /\ ParentOf(1) = Some(0)
    /\ ParentOf(2) = Some(1)

(* C15: an entry is attached if and only if its page is non-null and       *)
(* 1 <= page <= pageCount, and an attached node points at page - 1;        *)
(* entries failing the page check are skipped and the run still returns    *)
(* success; the reported attached count is the number of entries that      *)
(* pass the page check.                                                    *)
C15_AttachedIffPageInRange ==
    ( /\ ret.op = "generate_pdf_with_bookmarks"
      /\ ~IsNone(ret.input.uploaded_file) /\ ret.input.write_ok
      /\ bookmarks # <<>> ) =>
        LET pageCount == Val(ret.input.uploaded_file)
            passes(i) == /\ ~IsNone(bookmarks[i + 1].page)
                         /\ 1 <= Val(bookmarks[i + 1].page)
                         /\ Val(bookmarks[i + 1].page) <= pageCount
        IN  /\ ret.value.result
            /\ Len(Outline) = Len(bookmarks)
            /\ \A i \in 0..(Len(bookmarks) - 1) :
                  /\ Attached(i) <=> passes(i)
                  /\ Attached(i) =>
                        Val(Outline[i + 1]).page_index
                            = Val(bookmarks[i + 1].page) - 1
            /\ ret.value.bookmarks_added
                  = Cardinality({i \in 0..(Len(bookmarks) - 1) : passes(i)})

(* the last n calls of the run were all undo calls                         *)
LastCallsWereUndo(n) ==
    /\ Len(log) >= n
    /\ \A k \in (Len(log) - n + 1)..Len(log) : log[k] = "undo"

(* C16: an undo() call made when no snapshot is left to restore (the log   *)
(* holds at most one) returns False without raising, and a failing call    *)
(* leaves current, original, offset and the undo log as they were.         *)
C16_ExtraUndoFails ==
    [][(log' # log /\ ret'.op = "undo") =>
          /\ Len(history) <= 1 => ret'.value = FALSE
          /\ ret'.value = FALSE =>
                /\ ~ret'.raised
                /\ UNCHANGED <<bookmarks, original_bookmarks, offset,
                               history>>
      ]_vars

(* after three additions, two undos restored and two more were refused     *)
C16_Witness ==
    /\ LastCallsWereUndo(4)
    /\ Len(log) = 7
    /\ ret.value = FALSE
    /\ Len(history) = 1
    /\ Len(bookmarks) = 0

(* C17: undo() succeeds exactly when the log holds at least two            *)
(* snapshots; a successful undo() removes the most recent snapshot and     *)
(* sets current, original and offset to the values of the snapshot that is *)
(* then the most recent one, which stays in the log.                       *)
C17_UndoRestoresPrevious ==
    [][(log' # log /\ ret'.op = "undo") =>
          /\ ret'.value = TRUE <=> Len(history) >= 2
          /\ ret'.value = TRUE =>
                LET top == history'[Len(history')]
                IN  /\ history' = SubSeq(history, 1, Len(history) - 1)
                    /\ bookmarks' = top.bookmarks
                    /\ original_bookmarks' = top.original_bookmarks
                    /\ offset' = top.offset
      ]_vars

(* an undo has succeeded on a log of three snapshots and restored the      *)
(* second one                                                              *)
C17_Witness ==
    /\ ret.op = "undo"
    /\ ret.value = TRUE
    /\ Len(history) = 2
    /\ Len(history[2].bookmarks) = 1
    /\ bookmarks = history[2].bookmarks
    /\ bookmarks # history[1].bookmarks

(* the operations that take a snapshot and change the store on every call  *)
SnapshotOps == {"parse_toc_text", "add_bookmark", "batch_update_bookmarks"}

(* C18: after a mutating operation immediately followed by a successful    *)
(* undo(), current, original and offset equal their values immediately     *)
(* before that operation (the snapshot the operation took when it began).  *)
C18_UndoRevertsLastOperation ==
    [][(log' # log /\ ret.op \in SnapshotOps /\ ~ret.raised
          /\ ret'.op = "undo" /\ ret'.value = TRUE)
        => /\ bookmarks' = Before.bookmarks
           /\ original_bookmarks' = Before.original_bookmarks
           /\ offset' = Before.offset
      ]_vars

(* C19: the undo log never holds more than 5 snapshots; recording a        *)
(* snapshot when 5 are held drops the oldest one; a fifth undo() call in a *)
(* row never succeeds.                                                     *)
C19_BoundedUndoLog ==
    [][ /\ Len(history') <= 5
        /\ (Len(history) = 5 /\ log' # log /\ ret'.op # "undo"
              /\ history' # history) =>
              /\ Len(history') = 5
              /\ SubSeq(history', 1, 4) = SubSeq(history, 2, 5)
              /\ history'[5] = [bookmarks |-> bookmarks,
                                original_bookmarks |-> original_bookmarks,
                                offset |-> offset]
        /\ (log' # log /\ ret'.op = "undo" /\ LastCallsWereUndo(4)) =>
              ret'.value = FALSE
      ]_vars

(* six additions, the sixth dropping the oldest snapshot, and then four    *)
(* successful undos in a row                                               *)
C19_Witness ==
    /\ Len(log) = 10
    /\ \A k \in 1..6 : log[k] = "add_bookmark"
    /\ LastCallsWereUndo(4)
    /\ ret.value = TRUE
    /\ Len(history) = 1
    /\ Len(bookmarks) = 1

(* C20: every operation other than undo that changes current, original or  *)
(* offset appends to the undo log exactly one snapshot, equal to current,  *)
(* original and offset as they were immediately before the operation (the  *)
(* log keeping its newest 5 snapshots).                                    *)
C20_SnapshotBeforeChange ==
    [][(log' # log /\ ret'.op # "undo"
          /\ <<bookmarks', original_bookmarks', offset'>>
                # <<bookmarks, original_bookmarks, offset>>)
        => LET snapshot == [bookmarks |-> bookmarks,
                            original_bookmarks |-> original_bookmarks,
                            offset |-> offset]
               appended == Append(history, snapshot)
           IN  history' = IF Len(appended) > 5 THEN Tail(appended)
                          ELSE appended
      ]_vars

Removed(list, new, i) ==
    /\ InRange(i, list)
    /\ Len(new) = Len(list) - 1
    /\ \A k \in 1..Len(new) : new[k] = IF k <= i THEN list[k] ELSE list[k + 1]

(* C22: remove, update and move called with index < 0 or index >= length   *)
(* raise no error and leave current, original, offset and the undo log     *)
(* unchanged; remove with a valid index deletes exactly the entry at that  *)
(* index from both sequences and keeps the order of the others.            *)
C22_IndexGuard ==
    [][(log' # log /\ ret'.op \in {"remove_bookmark", "update_bookmark",
                                   "move_bookmark"}) =>
          LET index == ret'.input.index
              length == Len(bookmarks)
          IN  /\ (index < 0 \/ index >= length) =>
                    /\ ~ret'.raised
                    /\ UNCHANGED <<bookmarks, original_bookmarks, offset,
                                   history>>
              /\ (ret'.op = "remove_bookmark" /\ 0 <= index
                     /\ index < length) =>
                    /\ Removed(bookmarks, bookmarks', index)
                    /\ Removed(original_bookmarks, original_bookmarks', index)
      ]_vars

(* C23: batchUpdate changes, for each in-range index listed and in the     *)
(* same way in current and in original, the title to titlePrefix + title,  *)
(* a non-null page to page + pageOffset and the level to                   *)
(* max(0, min(3, that sequence's level + levelOffset)); out-of-range       *)
(* indices are skipped, null pages stay null and entries at indices not    *)
(* listed are unchanged.  (Stated for index lists without repetition.)     *)
C23_BatchUpdate ==
    [][(log' # log /\ ret'.op = "batch_update_bookmarks"
          /\ \A j, k \in 1..Len(ret'.input.indices) :
                ret'.input.indices[j] = ret'.input.indices[k] => j = k)
        => LET indices == ret'.input.indices
               titlePrefix == ret'.input.title_prefix
               pageOffset == ret'.input.page_offset
               levelOffset == ret'.input.level_offset
               listed(i) == /\ \E j \in 1..Len(indices) : indices[j] = i
                            /\ 0 <= i /\ i < Len(bookmarks)
               changed(e) ==
                   [title |-> IF IsNone(titlePrefix) THEN e.title
                              ELSE Val(titlePrefix) \o e.title,
                    page |-> IF IsNone(pageOffset) \/ IsNone(e.page)
                             THEN e.page
                             ELSE Some(Val(e.page) + Val(pageOffset)),
                    level |-> IF IsNone(levelOffset) THEN e.level
                              ELSE Max2(0, Min2(3, e.level
                                                     + Val(levelOffset)))]
               Updated(list, new) ==
                   /\ Len(new) = Len(list)
                   /\ \A k \in 1..Len(list) :
                         new[k] = IF listed(k - 1) THEN changed(list[k])
                                  ELSE list[k]
           IN  /\ ~ret'.raised
               /\ Updated(bookmarks, bookmarks')
               /\ Updated(original_bookmarks, original_bookmarks')
      ]_vars

(* C24: add(title, page, level) appends one entry with these values to the *)
(* end of both current and original, whatever the offset in effect, and    *)
(* leaves the entries already there unchanged; an applyOffset request with *)
(* offset o that follows gives the added entry the current page page + o   *)
(* (a null page stays null).                                               *)
C24_AddAppendsToBoth ==
    [][ /\ (log' # log /\ ret'.op = "add_bookmark") =>
              /\ ~ret'.raised
              /\ bookmarks' = Append(bookmarks, ret'.input)
              /\ original_bookmarks' = Append(original_bookmarks, ret'.input)
              /\ DOMAIN ret'.input = {"title", "page", "level"}
        /\ (log' # log /\ ret.op = "add_bookmark"
               /\ ret'.op = "/apply_offset") =>
              LET added == bookmarks'[Len(bookmarks')]
              IN  /\ Len(bookmarks') = Len(original_bookmarks)
                  /\ added.title = ret.input.title
                  /\ added.level = ret.input.level
                  /\ added.page = IF IsNone(ret.input.page) THEN None
                                  ELSE Some(Val(ret.input.page) + ret'.input)
      ]_vars

(* an entry with page 1 was added while offset 2 was in effect, and the    *)
(* request for offset -1 that followed gave it the current page 0          *)
C24_Witness ==
    /\ log = <<"/apply_offset", "add_bookmark", "/apply_offset">>
    /\ Before.offset = 2
    /\ offset = -1
    /\ Len(bookmarks) = 1
    /\ bookmarks[1].page = Some(0)
    /\ original_bookmarks[1].page = Some(1)

(* C25: a line without numbering, Markdown prefix or keywords gets the     *)
(* level min(3, leadingSpaces // 2), leadingSpaces being the number of     *)
(* space characters at the start of the input line as pasted; a line       *)
(* indented by 4 spaces gets level 2.                                      *)
C25_IndentLevel ==
    ret.op = "parse_toc_text" =>
        LET lines == NonBlankLines(ret.input)
        IN  \A i \in 1..Len(ret.value) :
               LET e == ret.value[i]
                   leadingSpaces == LeadingCount(lines[i], " ")
               IN  ( /\ chapter_match(e.title) = <<>>
                     /\ IsNone(markdown_match(Strip(lines[i])))
                     /\ ~AnyKeyword(e.title, AllKeywords) )
                   => e.level = Min2(3, leadingSpaces \div 2)

(* C26: for a line whose level after the indent, numbering and Markdown    *)
(* steps is L, a title containing a subsection-class keyword gets the      *)
(* final level min(L+2, 3), and a title containing a section/item-class    *)
(* keyword (and no subsection-class keyword) gets min(L+1, 3).             *)
C26_KeywordRaise ==
    ret.op = "parse_toc_text" =>
        LET lines == toc_lines(ret.input)
            mapping == level_mapping(markdown_levels(lines))
        IN  \A i \in 1..Len(ret.value) :
               LET e == ret.value[i]
                   mm == markdown_match(lines[i])
                   L == IF IsNone(mm)
                        THEN dot_level(indent_level(lines[i]),
                                       title_of(strip_prefixes(lines[i])))
                        ELSE mapped_level(mapping, Val(mm).hashes)
               IN  /\ AnyKeyword(e.title, subsection_keywords)
                         => e.level = Min2(L + 2, 3)
                   /\ ( /\ AnyKeyword(e.title, section_keywords)
                        /\ ~AnyKeyword(e.title, subsection_keywords) )
                         => e.level = Min2(L + 1, 3)

(* C27: in the outline written, the parent of an attached node at index i  *)
(* is the nearest preceding entry of current (the largest j < i) whose     *)
(* level is strictly less than the node's level, and the node is top-level *)
(* only if no preceding entry has a strictly smaller level, also when      *)
(* preceding entries have null or out-of-range pages.                      *)
C27_ParentIsNearestEntry ==
    Generated =>
        \A i \in 0..(Len(bookmarks) - 1) :
           Attached(i) =>
             LET lower == {j \in 0..(i - 1) :
                              bookmarks[j + 1].level < bookmarks[i + 1].level}
             IN  IF lower = {} THEN IsNone(ParentOf(i))
                 ELSE /\ ~IsNone(ParentOf(i))
                      /\ Val(ParentOf(i)) \in lower
                      /\ \A j \in lower : j <= Val(ParentOf(i))

(* number of steps from the attached node i up to a top-level node         *)
RECURSIVE Depth(_)
Depth(i) == IF IsNone(ParentOf(i)) THEN 0 ELSE 1 + Depth(Val(ParentOf(i)))

(* C28: in the outline built by generation every child's level is          *)
(* strictly greater than its parent's level, the parent being an attached  *)
(* earlier entry, and when all levels are in 0..3 no node is nested more   *)
(* than 3 steps below a top-level node.                                    *)
C28_LevelsDecreaseToRoot ==
    Generated =>
        /\ \A i \in 0..(Len(bookmarks) - 1) :
              (Attached(i) /\ ~IsNone(ParentOf(i))) =>
                LET p == Val(ParentOf(i))
                IN  /\ 0 <= p /\ p < i
                    /\ Attached(p)
                    /\ bookmarks[p + 1].level < bookmarks[i + 1].level
        /\ LevelsInRange(bookmarks) =>
              \A i \in 0..(Len(bookmarks) - 1) : Attached(i) => Depth(i) <= 3

(* a chain of four attached entries of levels 0, 1, 2 and 3, the last one  *)
(* three steps below the top                                               *)
C28_Witness ==
    /\ Generated
    /\ Len(bookmarks) = 4
    /\ \A i \in 0..3 : Attached(i) /\ bookmarks[i + 1].level = i
    /\ Depth(3) = 3

(* the three store fields as one record                                    *)
Store(b, ob, off) ==
    [bookmarks |-> b, original_bookmarks |-> ob, offset |-> off]

DraftStore(d) ==
    Store(Val(d).bookmarks, Val(d).original_bookmarks, Val(d).offset)

(* the step is a mutating call that returned: a parse, an add or a batch   *)
(* update, a remove, update or move with a valid index, a successful undo  *)
(* or a successful import                                                  *)
MutatingCallReturned ==
    /\ log' # log
    /\ ~ret'.raised
    /\ \/ ret'.op \in SnapshotOps
       \/ /\ ret'.op \in {"remove_bookmark", "update_bookmark",
                           "move_bookmark"}
          /\ InRange(ret'.input.index, bookmarks)
       \/ ret'.op \in {"undo", "import_bookmarks"} /\ ret'.value = TRUE

(* C29: after each mutating store call returns (parse, add, valid remove,  *)
(* update or move, batch update, successful undo, successful import) the   *)
(* draft holds current, original and offset equal to the in-memory store;  *)
(* a session started while a draft exists begins with current, original    *)
(* and offset equal to the draft's.                                        *)
C29_DraftMirrorsStore ==
    [][ /\ MutatingCallReturned =>
             /\ ~IsNone(draft')
             /\ DraftStore(draft') =
                    Store(bookmarks', original_bookmarks', offset')
        /\ (log' # log /\ ret'.op = "__init__" /\ ~IsNone(draft)) =>
             /\ Store(bookmarks', original_bookmarks', offset') =
                    DraftStore(draft)
             /\ draft' = draft ]_vars

(* a session that has just started from a draft whose lists differ and     *)
(* whose offset is not 0                                                   *)
C29_Witness ==
    /\ ret.op = "__init__"
    /\ ~IsNone(draft)
    /\ bookmarks # <<>>
    /\ original_bookmarks # bookmarks
    /\ offset # 0
    /\ Store(bookmarks, original_bookmarks, offset) = DraftStore(draft)

(* C30: generation deletes the draft exactly when it returns success; when *)
(* it returns failure it raises no error and leaves the draft, current,    *)
(* original, offset and the undo history unchanged.                        *)
C30_DraftDeletedOnSuccessOnly ==
    [][ (log' # log /\ ret'.op = "generate_pdf_with_bookmarks") =>
          /\ ~ret'.raised
          /\ ret'.value.result \in BOOLEAN
          /\ IF ret'.value.result
             THEN IsNone(draft')
             ELSE /\ draft' = draft
                  /\ bookmarks' = bookmarks
                  /\ original_bookmarks' = original_bookmarks
                  /\ offset' = offset
                  /\ history' = history ]_vars

(* an entry is added, which writes the draft, and the generation that      *)
(* follows succeeds and deletes it                                         *)
C30_Witness ==
    /\ log = <<"add_bookmark", "generate_pdf_with_bookmarks">>
    /\ ret.value.result
    /\ IsNone(draft)
    /\ bookmarks # <<>>
    /\ Len(history) = 1

====
